---- MODULE Spec2Model ----
(***************************************************************************)
(* Model of the Metigan client SDK (src/src/lib/metigan.ts): the request   *)
(* executor Metigan._makeRequestWithRetry, the public operations built on  *)
(* it and the transport (src/src/utils/http.ts) they call.                 *)
(*                                                                         *)
(* JavaScript runs each async function to its next real suspension, so an  *)
(* action is one such run: from the invocation (or from the settlement of  *)
(* a transport promise, or from a timer firing) up to the next transport   *)
(* call, the next setTimeout, or the end of the operation.                 *)
(***************************************************************************)
EXTENDS Integers, Sequences, FiniteSets, TLC

\* ------------------------------------------------------------------ bounds
NumCalls == 2          \* top-level calls that may run concurrently
MaxRetryOpt == 2       \* largest retryCount option a caller supplies
MaxDelayOpt == 1       \* largest retryDelay option a caller supplies
MaxTimeoutOpt == 1     \* largest timeout option a caller supplies
JitterSteps == 2       \* Math.random() is drawn from {0/J, ..., (J-1)/J}
ScriptLen == 3         \* scripted transport responses per call
MaxBatch == 3          \* longest attachment list handed to _processAttachments
MaxNameLen == 4        \* most tokens of a file name handed to _getMimeType
MaxLogs == 3           \* entries a logger accepts in one run of the model

\* --------------------------------------------------------------- constants
DEFAULT_RETRY_COUNT == 3
DEFAULT_RETRY_DELAY == 1000
DEFAULT_TIMEOUT == 30000
LOGGER_RETRY_COUNT == 3
MAX_FILE_SIZE == 7340032

\* ErrorCode (src/src/lib/error-codes.ts)
INVALID_API_KEY == 1000
INVALID_EMAIL_FORMAT == 1100
INVALID_RECIPIENT == 1101
MISSING_REQUIRED_FIELD == 1102
INVALID_ATTACHMENT == 1103
ATTACHMENT_TOO_LARGE == 1104
INVALID_AUDIENCE_ID == 1106
API_REQUEST_FAILED == 1200
NETWORK_ERROR == 1203
EMAIL_SEND_FAILED == 1400
UNEXPECTED_ERROR == 1900

Calls == 1..NumCalls
MainCall == 1

NoStatus == 0
\* the statuses of a failure: none (network error or timeout), the ones the
\* catch block of the executor names (401, 403, 5xx) and others
Statuses == {NoStatus, 400, 401, 403, 404, 422, 429, 500, 503}

VARIABLES
    options,      \* the MetiganOptions the client was constructed with
    apiKey,       \* Metigan.apiKey
    retryCount,   \* Metigan.retryCount
    retryDelay,   \* Metigan.retryDelay
    timeout,      \* Metigan.timeout
    isBrowser,    \* what _isBrowserEnvironment() returns in this environment
    script,       \* script[c][i]: does the transport resolve call c's i-th request
    silent,       \* the server never responds to a request
    call,         \* call[c]: the state of top-level call c (see IdleCall)
    inflight,     \* requests handed to the transport and not yet settled
    batch,        \* the attachments argument of a direct _processAttachments call
    result,       \* what that call settled with
    fileName,     \* the argument of a direct _getMimeType call
    mimeType,     \* what that call returned
    baseUrl,      \* the base of Metigan.baseApiUrl, baseContactApiUrl, ...
    logger,       \* Metigan.logger, the MetiganLogger of the client (see NewLogger)
    construction  \* the call  new Metigan(apiKey, options)  and how it ended

vars == <<options, apiKey, retryCount, retryDelay, timeout, isBrowser, script, silent, call, inflight,
         batch, result, fileName, mimeType, baseUrl, logger, construction>>

clientVars == <<options, apiKey, retryCount, retryDelay, timeout, isBrowser, baseUrl, construction>>

\* what the direct calls of the private helpers work on
helperVars == <<fileName, mimeType>>

\* ------------------------------------------------------------- data shapes
NoTimer == -1

\* the timeout of an axios request config that names none: the request is
\* never aborted
NoTimeout == 0

\* what a promise settles with.  kind "ok": the body the seq-th transport
\* call of this top-level call resolved with.  kind "fail": the failure
\* object the seq-th transport call rejected with (status, data).  kind
\* "metigan": a MetiganError (code, msg).  kind "raw": any other thrown value.
\* msg is <<text, number>>: the text of the message and the number it embeds
NoResult == [kind |-> "none", status |-> 0, data |-> "none", seq |-> 0, code |-> 0, msg |-> <<"", 0>>]

\* new MetiganError(message, code): it has a code and a message, no status
MetiganError(text, code) == [NoResult EXCEPT !.kind = "metigan", !.code = code, !.msg = <<text, 0>>]

\* a value that is thrown and is no MetiganError, such as a TypeError
RawError(text) == [NoResult EXCEPT !.kind = "raw", !.msg = <<text, 0>>]

Success(i) == [NoResult EXCEPT !.kind = "ok", !.status = 200, !.seq = i]

\* data: "none" (no body, or a body without an error field), "other" (a body
\* with error and message fields), "exists" (the same, and the message
\* contains "already exists"), "errorOnly" (a body with an error field and
\* no message)
DataKinds == {"none", "other", "exists", "errorOnly"}

Failure(s, d, i) == [NoResult EXCEPT !.kind = "fail", !.status = s, !.data = d, !.seq = i]

\* how the transport behaves towards the requests of each stage: the
\* failures <<status, data>> it rejects with, and whether it may write to
\* the header object it was handed.  A failure without a status is a
\* network error and has no response body.
Stages == {"executor", "contacts", "email", "emailAgain"}

Behaviours ==
    [st \in Stages |->
        IF st = "executor"
        THEN [failures |-> {<<s, "none">> : s \in Statuses}, mutates |-> BOOLEAN]
        ELSE IF st = "contacts"
        THEN [failures |-> {<<NoStatus, "none">>, <<401, "none">>}
                              \cup ({400} \X (DataKinds \ {"errorOnly"})),
              mutates |-> {FALSE}]
        ELSE [failures |-> {<<NoStatus, "none">>, <<401, "none">>}
                              \cup ({400, 429} \X DataKinds),
              mutates |-> {FALSE}]]

\* the behaviour towards the calls that run concurrently
FewBehaviours ==
    [st \in Stages |->
        [failures |-> {<<NoStatus, "none">>, <<500, "none">>}, mutates |-> {FALSE}]]

Scripts == [1..ScriptLen -> BOOLEAN]

\* like a jest mock, the last scripted response is the default afterwards
ScriptAt(sc, i) == IF i <= Len(sc) THEN sc[i] ELSE sc[Len(sc)]


\* ------------------------------------------------------------------ strings
\* a string is a sequence of tokens; "@", ".", "<", ">" and " " are the
\* characters the code looks for, every other token is a run of other
\* characters
IndexOf(s, ch) ==
    IF \E i \in 1..Len(s) : s[i] = ch
    THEN CHOOSE i \in 1..Len(s) : s[i] = ch /\ \A j \in 1..(i - 1) : s[j] # ch
    ELSE 0

\* String.prototype.split(ch)
RECURSIVE Split(_, _)
Split(s, ch) ==
    LET i == IndexOf(s, ch)
    IN IF i = 0 THEN <<s>>
       ELSE <<SubSeq(s, 1, i - 1)>> \o Split(SubSeq(s, i + 1, Len(s)), ch)

\* String.prototype.trim()
RECURSIVE Trim(_)
Trim(s) ==
    IF s = <<>> THEN s
    ELSE IF s[1] = " " THEN Trim(Tail(s))
    ELSE IF s[Len(s)] = " " THEN Trim(SubSeq(s, 1, Len(s) - 1))
    ELSE s

\* the emails and sender fields the callers of the model pass
PlainEmail == <<"a", "@", "x", ".", "com">>
NamedEmail == <<"Name", " ", "<", "b", "@", "y", ".", "com", ">">>
NotAnEmail == <<"not-an-email">>
NoDotEmail == <<"a", "@", "x">>
NoString == <<>>

ValidateEmail(email) ==
    IF email = <<>> THEN FALSE
    ELSE LET parts == Split(email, "@")
         IN IF Len(parts) # 2 THEN FALSE
            ELSE IF Len(parts[1]) = 0 THEN FALSE
            ELSE LET domainParts == Split(parts[2], ".")
                 IN IF Len(domainParts) < 2 THEN FALSE
                    ELSE IF \E i \in 1..Len(domainParts) : Len(domainParts[i]) = 0 THEN FALSE
                    ELSE TRUE

\* from.match(/<([^>]+)>/): the leftmost "<" that is followed by at least one
\* character other than ">" and then by ">"
AngleStart(s) ==
    LET ok(p) == /\ s[p] = "<"
                 /\ \E q \in (p + 2)..Len(s) :
                       s[q] = ">" /\ \A r \in (p + 1)..(q - 1) : s[r] # ">"
    IN IF \E p \in 1..Len(s) : ok(p)
       THEN CHOOSE p \in 1..Len(s) : ok(p) /\ \A p2 \in 1..(p - 1) : ~ok(p2)
       ELSE 0

ExtractEmailAddress(from) ==
    IF from = <<>> THEN <<>>
    ELSE LET p == AngleStart(from)
         IN IF p # 0
            THEN LET q == CHOOSE q \in (p + 2)..Len(from) :
                              from[q] = ">" /\ \A r \in (p + 1)..(q - 1) : from[r] # ">"
                 IN Trim(SubSeq(from, p + 1, q - 1))
            ELSE Trim(from)

\* --------------------------------------------------------------- validation
Valid == [isValid |-> TRUE, error |-> "", code |-> 0]

Invalid(text, code) == [isValid |-> FALSE, error |-> text, code |-> code]

NoContactOptions == [present |-> FALSE, createContact |-> FALSE, audienceId |-> ""]

ContactOptions(create, aud) == [present |-> TRUE, createContact |-> create, audienceId |-> aud]

\* the recipients of messageData at or after position i are well formed
RECURSIVE FirstBadRecipient(_, _)
FirstBadRecipient(recipients, i) ==
    IF i > Len(recipients) THEN 0
    ELSE LET recipientEmail == ExtractEmailAddress(recipients[i])
         IN IF recipientEmail = <<>> \/ ~ValidateEmail(recipientEmail) THEN i
            ELSE FirstBadRecipient(recipients, i + 1)

ValidateMessageData(messageData) ==
    IF messageData.from = <<>>
    THEN Invalid("Sender email (from) is required", MISSING_REQUIRED_FIELD)
    ELSE IF ~messageData.hasRecipients \/ Len(messageData.recipients) = 0
    THEN Invalid("Recipients must be a non-empty array", MISSING_REQUIRED_FIELD)
    ELSE IF messageData.subject = ""
    THEN Invalid("Subject is required", MISSING_REQUIRED_FIELD)
    ELSE IF messageData.content = ""
    THEN Invalid("Content is required", MISSING_REQUIRED_FIELD)
    ELSE IF ExtractEmailAddress(messageData.from) = <<>>
            \/ ~ValidateEmail(ExtractEmailAddress(messageData.from))
    THEN Invalid("Invalid sender email format", INVALID_EMAIL_FORMAT)
    ELSE IF FirstBadRecipient(messageData.recipients, 1) # 0
    THEN Invalid("Invalid recipient email format", INVALID_RECIPIENT)
    ELSE IF messageData.contactOptions.present /\ messageData.contactOptions.createContact
            /\ messageData.contactOptions.audienceId = ""
    THEN Invalid("audienceId is required when createContact is true", INVALID_AUDIENCE_ID)
    ELSE Valid

ValidateContactOptions(opts, emails) ==
    IF ~opts.createContact
    THEN Invalid("createContact must be true", MISSING_REQUIRED_FIELD)
    ELSE IF opts.audienceId = ""
    THEN Invalid("audienceId is required for contact creation", INVALID_AUDIENCE_ID)
    ELSE IF Len(emails) = 0
    THEN Invalid("At least one email is required for contact creation", MISSING_REQUIRED_FIELD)
    ELSE IF \E i \in 1..Len(emails) : ~ValidateEmail(emails[i])
    THEN Invalid("Invalid email format", INVALID_EMAIL_FORMAT)
    ELSE Valid

\* -------------------------------------------------------------- attachments
\* String.prototype.toLowerCase() on the extension tokens the model uses
ToLowerCase(tok) ==
    CASE tok = "PDF" -> "pdf"
      [] tok = "Txt" -> "txt"
      [] tok = "JPG" -> "jpg"
      [] OTHER -> tok

\* mimeMap of _getMimeType, keyed by the enumerable keys of the literal
MimeKeys ==
    {"pdf", "doc", "docx", "xls", "xlsx", "ppt", "pptx", "jpg", "jpeg", "png",
     "gif", "svg", "txt", "html", "css", "js", "json", "xml", "zip", "rar",
     "tar", "mp3", "mp4", "wav", "avi", "csv"}

MimeMap(ext) ==
    CASE ext = "pdf" -> "application/pdf"
      [] ext = "doc" -> "application/msword"
      [] ext = "docx" -> "application/vnd.openxmlformats-officedocument.wordprocessingml.document"
      [] ext = "xls" -> "application/vnd.ms-excel"
      [] ext = "xlsx" -> "application/vnd.openxmlformats-officedocument.spreadsheetml.sheet"
      [] ext = "ppt" -> "application/vnd.ms-powerpoint"
      [] ext = "pptx" -> "application/vnd.openxmlformats-officedocument.presentationml.presentation"
      [] ext = "jpg" -> "image/jpeg"
      [] ext = "jpeg" -> "image/jpeg"
      [] ext = "png" -> "image/png"
      [] ext = "gif" -> "image/gif"
      [] ext = "svg" -> "image/svg+xml"
      [] ext = "txt" -> "text/plain"
      [] ext = "html" -> "text/html"
      [] ext = "css" -> "text/css"
      [] ext = "js" -> "application/javascript"
      [] ext = "json" -> "application/json"
      [] ext = "xml" -> "application/xml"
      [] ext = "zip" -> "application/zip"
      [] ext = "rar" -> "application/x-rar-compressed"
      [] ext = "tar" -> "application/x-tar"
      [] ext = "mp3" -> "audio/mpeg"
      [] ext = "mp4" -> "video/mp4"
      [] ext = "wav" -> "audio/wav"
      [] ext = "avi" -> "video/x-msvideo"
      [] ext = "csv" -> "text/csv"

\* the lower-case names mimeMap inherits from Object.prototype: mimeMap[ext]
\* finds them although the literal does not list them
InheritedKeys == {"constructor", "__proto__"}

\* what mimeMap[ext] is for an inherited name: an object, not a string
Inherited(ext) == "Object.prototype member"

\* name.split(".").pop()?.toLowerCase(), then the table or the default;
\* a part of several tokens is no key of the table
GetMimeType(name) ==
    LET parts == Split(name, ".")
        last == parts[Len(parts)]
    IN IF Len(last) = 1 /\ ToLowerCase(last[1]) \in MimeKeys
       THEN MimeMap(ToLowerCase(last[1]))
       ELSE IF Len(last) = 1 /\ ToLowerCase(last[1]) \in InheritedKeys
       THEN Inherited(ToLowerCase(last[1]))
       ELSE "application/octet-stream"

\* an element of options.attachments: which of the properties the code
\* probes it has, and their values
NoItem ==
    [isFile |-> FALSE, name |-> <<>>, size |-> 0, type |-> "",
     hasBuffer |-> FALSE, bufferLength |-> 0,
     hasOriginalname |-> FALSE, originalname |-> <<>>, mimetype |-> "",
     hasContent |-> FALSE, contentKind |-> "none", contentSize |-> 0,
     hasFilename |-> FALSE, filename |-> <<>>, contentType |-> ""]

\* a browser File
FileItem(name, size, type) ==
    [NoItem EXCEPT !.isFile = TRUE, !.name = name, !.size = size, !.type = type]

\* a NodeAttachment {buffer, originalname, mimetype}
NodeItem(originalname, length, mimetype) ==
    [NoItem EXCEPT !.hasBuffer = TRUE, !.bufferLength = length,
                   !.hasOriginalname = TRUE, !.originalname = originalname,
                   !.mimetype = mimetype]

\* a CustomAttachment {content, filename, contentType}; kind is the type of
\* content: "ArrayBuffer", "Uint8Array" (or Buffer) or "string"
CustomItem(filename, kind, size, contentType) ==
    [NoItem EXCEPT !.hasContent = TRUE, !.contentKind = kind, !.contentSize = size,
                   !.hasFilename = TRUE, !.filename = filename,
                   !.contentType = contentType]

\* the record _processAttachments pushes; content is described by its raw
\* byte length and by whether it was converted to a base64 string
Processed(filename, bytes, converted, mimetype) ==
    [filename |-> filename, bytes |-> bytes, converted |-> converted,
     contentType |-> mimetype, encoding |-> "base64", disposition |-> "attachment"]

TooLarge(filename) == MetiganError("exceeds the maximum size of 7MB", ATTACHMENT_TOO_LARGE)

\* a loop body that looks for content and filename before buffer and
\* originalname
ProcessOneCustomFirst(file) ==
    IF isBrowser /\ file.isFile
    THEN IF file.size > MAX_FILE_SIZE
         THEN [ok |-> FALSE, error |-> TooLarge(file.name), item |-> NoItem]
         ELSE [ok |-> TRUE, error |-> NoResult,
               item |-> Processed(file.name, file.size, TRUE,
                                  IF file.type # "" THEN file.type ELSE GetMimeType(file.name))]
    ELSE IF file.hasContent /\ file.hasFilename
    THEN IF file.contentSize > MAX_FILE_SIZE
         THEN [ok |-> FALSE, error |-> TooLarge(file.filename), item |-> NoItem]
         ELSE [ok |-> TRUE, error |-> NoResult,
               item |-> Processed(file.filename, file.contentSize,
                                  isBrowser /\ file.contentKind \in {"ArrayBuffer", "Uint8Array"},
                                  IF file.contentType # "" THEN file.contentType
                                  ELSE GetMimeType(file.filename))]
    ELSE IF file.hasBuffer /\ file.hasOriginalname
    THEN IF file.bufferLength > MAX_FILE_SIZE
         THEN [ok |-> FALSE, error |-> TooLarge(file.originalname), item |-> NoItem]
         ELSE [ok |-> TRUE, error |-> NoResult,
               item |-> Processed(file.originalname, file.bufferLength, isBrowser,
                                  IF file.mimetype # "" THEN file.mimetype
                                  ELSE GetMimeType(file.originalname))]
    ELSE [ok |-> FALSE, error |-> MetiganError("Invalid attachment format", INVALID_ATTACHMENT),
          item |-> NoItem]

\* one iteration of the for loop of _processAttachments: what it throws, or
\* the record it pushes
ProcessOne(file) ==
    IF isBrowser /\ file.isFile
    THEN IF file.size > MAX_FILE_SIZE
         THEN [ok |-> FALSE, error |-> TooLarge(file.name), item |-> NoItem]
         ELSE [ok |-> TRUE, error |-> NoResult,
               item |-> Processed(file.name, file.size, TRUE,
                                  IF file.type # "" THEN file.type ELSE GetMimeType(file.name))]
    ELSE IF file.hasBuffer /\ file.hasOriginalname
    THEN IF file.bufferLength > MAX_FILE_SIZE
         THEN [ok |-> FALSE, error |-> TooLarge(file.originalname), item |-> NoItem]
         ELSE [ok |-> TRUE, error |-> NoResult,
               item |-> Processed(file.originalname, file.bufferLength, isBrowser,
                                  IF file.mimetype # "" THEN file.mimetype
                                  ELSE GetMimeType(file.originalname))]
    ELSE IF file.hasContent /\ file.hasFilename
    THEN LET contentSize == IF file.contentKind \in {"ArrayBuffer", "Uint8Array", "string"}
                            THEN file.contentSize ELSE 0
         IN IF contentSize > MAX_FILE_SIZE
            THEN [ok |-> FALSE, error |-> TooLarge(file.filename), item |-> NoItem]
            ELSE [ok |-> TRUE, error |-> NoResult,
                  item |-> Processed(file.filename, file.contentSize,
                                     isBrowser /\ file.contentKind \in {"ArrayBuffer", "Uint8Array"},
                                     IF file.contentType # "" THEN file.contentType
                                     ELSE GetMimeType(file.filename))]
    ELSE [ok |-> FALSE, error |-> MetiganError("Invalid attachment format", INVALID_ATTACHMENT),
          item |-> NoItem]

\* a loop that pushes no record for an item that occurred earlier in the list
RECURSIVE ProcessFromDeduplicating(_, _, _)
ProcessFromDeduplicating(attachments, i, done) ==
    IF i > Len(attachments)
    THEN [ok |-> TRUE, error |-> NoResult, list |-> done, examined |-> i - 1]
    ELSE LET one == ProcessOne(attachments[i])
         IN IF ~one.ok
            THEN [ok |-> FALSE, error |-> one.error, list |-> <<>>, examined |-> i]
            ELSE ProcessFromDeduplicating(attachments, i + 1,
                    IF \E j \in 1..(i - 1) : attachments[j] = attachments[i]
                    THEN done ELSE Append(done, one.item))

\* a loop that leaves a bad item out and goes on with the next one
RECURSIVE ProcessFromSkipping(_, _, _)
ProcessFromSkipping(attachments, i, done) ==
    IF i > Len(attachments)
    THEN [ok |-> TRUE, error |-> NoResult, list |-> done, examined |-> i - 1]
    ELSE LET one == ProcessOne(attachments[i])
         IN ProcessFromSkipping(attachments, i + 1,
                                IF one.ok THEN Append(done, one.item) ELSE done)

\* the loop from item i on, with the records pushed so far; examined is the
\* number of items the loop has looked at
RECURSIVE ProcessFrom(_, _, _)
ProcessFrom(attachments, i, done) ==
    IF i > Len(attachments)
    THEN [ok |-> TRUE, error |-> NoResult, list |-> done, examined |-> i - 1]
    ELSE LET one == ProcessOne(attachments[i])
         IN IF one.ok THEN ProcessFrom(attachments, i + 1, Append(done, one.item))
            ELSE [ok |-> FALSE, error |-> one.error, list |-> <<>>, examined |-> i]

ProcessAttachments(attachments) ==
    IF Len(attachments) = 0
    THEN [ok |-> TRUE, error |-> NoResult, list |-> <<>>, examined |-> 0]
    ELSE ProcessFrom(attachments, 1, <<>>)

\* -------------------------------------------------------------- constructor
Given(v) == [given |-> TRUE, value |-> v]

NotGiven == [given |-> FALSE, value |-> 0]

\* JavaScript's  option || dflt
OrDefault(o, dflt) == IF o.given /\ o.value # 0 THEN o.value ELSE dflt

\* a base URL option that is not given, and the default base URL
NoUrl == ""

DEFAULT_BASE_URL == "https://metigan-emails-api.savanapoint.com"

\* options.baseUrl || DEFAULT_BASE_URL
UrlOrDefault(u) == IF u # NoUrl THEN u ELSE DEFAULT_BASE_URL

OptionSets ==
    [retryCount : {NotGiven} \cup {Given(n) : n \in 0..MaxRetryOpt},
     retryDelay : {NotGiven} \cup {Given(n) : n \in 0..MaxDelayOpt},
     timeout : {NotGiven} \cup {Given(n) : n \in 1..MaxTimeoutOpt},
     disableLogs : BOOLEAN,
     baseUrl : {NoUrl, "https://api.test"}]

\* the options of the unit tests' client: logs disabled, default base URL
LogsDisabled(o) == o.disableLogs /\ o.baseUrl = NoUrl

NoOptions ==
    [retryCount |-> NotGiven, retryDelay |-> NotGiven, timeout |-> NotGiven,
     disableLogs |-> TRUE, baseUrl |-> NoUrl]

\* the apiKey argument: a key, the empty string, and undefined
Undefined == "undefined"

ApiKeyArgs == {"key", "", Undefined}

\* !apiKey
Falsy(k) == k \in {"", Undefined}

\* a field of the client that no statement has assigned yet
Unset == 0

UnsetText == ""

\* new Metigan(apiKey, options) before it runs, after it returned the
\* client, and after it threw
Constructing(k) == [kind |-> "new", apiKey |-> k, error |-> NoResult]

Constructed(k) == [kind |-> "client", apiKey |-> k, error |-> NoResult]

ConstructorThrew(k, e) == [kind |-> "thrown", apiKey |-> k, error |-> e]

\* --------------------------------------------------------------- the logger
\* the handle in batchTimeout: null, the handle of a timer that is pending,
\* or the handle of a timer that has fired
NoHandle == "null"
PendingHandle == "pending"
FiredHandle == "fired"

\* MetiganLogger after its constructor; accepted counts the entries log()
\* has pushed, batches lists the activations of processBatch that went past
\* its guard
NewLogger ==
    [disabled |-> FALSE, pendingLogs |-> <<>>, isBatchProcessing |-> FALSE,
     batchTimeout |-> NoHandle, accepted |-> 0, batches |-> <<>>]

\* clearPendingLogs()
ClearPendingLogs(lg) == [lg EXCEPT !.pendingLogs = <<>>, !.batchTimeout = NoHandle]

\* disable()
Disable(lg) == ClearPendingLogs([lg EXCEPT !.disabled = TRUE])

\* enable()
Enable(lg) == [lg EXCEPT !.disabled = FALSE]

\* scheduleBatchProcessing()
ScheduleBatchProcessing(lg) ==
    IF lg.batchTimeout = NoHandle /\ ~lg.disabled
    THEN [lg EXCEPT !.batchTimeout = PendingHandle]
    ELSE lg

\* the object log() pushes; id tells the objects apart
LogEntry(id, endpoint, status) == [id |-> id, endpoint |-> endpoint, status |-> status]

\* log(endpoint, status, method)
Log(lg, endpoint, status) ==
    IF lg.disabled THEN lg
    ELSE ScheduleBatchProcessing(
            [lg EXCEPT !.accepted = @ + 1,
                       !.pendingLogs = Append(@, LogEntry(lg.accepted + 1, endpoint, status))])

\* the logger after the calls of log() for entries, in their order
RECURSIVE LogAll(_, _)
LogAll(lg, entries) ==
    IF entries = <<>> THEN lg
    ELSE LogAll(Log(lg, Head(entries).endpoint, Head(entries).status), Tail(entries))

\* an activation of processBatch that is at its await: logBatch is its
\* copy of the queue, attempt the loop variable of the logger's
\* _makeRequestWithRetry, posts the calls of axios.post it has made, pc is
\* "posting" (a POST is in flight), "waiting" (between two attempts) or
\* "done", and ended tells how _makeRequestWithRetry ended
NewBatch(logBatch) ==
    [logBatch |-> logBatch, pc |-> "posting", attempt |-> 0, posts |-> 1, ended |-> "no"]

\* a processBatch that copies the queue and does not empty it
ProcessBatchKeepingQueue(lg) ==
    IF lg.disabled \/ lg.pendingLogs = <<>> \/ lg.isBatchProcessing
    THEN lg
    ELSE [lg EXCEPT !.isBatchProcessing = TRUE, !.batchTimeout = NoHandle,
                    !.batches = Append(@, NewBatch(lg.pendingLogs))]

\* a processBatch that does not look at isBatchProcessing
ProcessBatchUnguarded(lg) ==
    IF lg.disabled \/ lg.pendingLogs = <<>>
    THEN lg
    ELSE [lg EXCEPT !.isBatchProcessing = TRUE, !.batchTimeout = NoHandle,
                    !.pendingLogs = <<>>,
                    !.batches = Append(@, NewBatch(lg.pendingLogs))]

\* processBatch() up to its await: the early return, or the copy of the
\* queue and the first POST
ProcessBatch(lg) ==
    IF lg.disabled \/ lg.pendingLogs = <<>> \/ lg.isBatchProcessing
    THEN lg
    ELSE [lg EXCEPT !.isBatchProcessing = TRUE, !.batchTimeout = NoHandle,
                    !.pendingLogs = <<>>,
                    !.batches = Append(@, NewBatch(lg.pendingLogs))]

\* the rest of processBatch once _makeRequestWithRetry has ended: the
\* catch handlers only warn, then the finally block runs
Finally(lg, b, ended) ==
    LET after == [lg EXCEPT !.isBatchProcessing = FALSE,
                            !.batches[b].pc = "done", !.batches[b].ended = ended]
    IN IF after.pendingLogs # <<>> THEN ScheduleBatchProcessing(after) ELSE after

\* axios.post resolved: the logger's _makeRequestWithRetry returns
LogOnSuccess(lg, b) == Finally(lg, b, "sent")

\* the statuses the log API rejects with; NoStatus is an error without a
\* response, such as the 5 s timeout
LogStatuses == {NoStatus, 403, 500}

\* the catch block of the logger's _makeRequestWithRetry for a failure of
\* status st: on the last attempt it returns (403, or no response) or
\* leaves the loop and throws, before that it waits
LogOnFailure(lg, b, st) ==
    IF lg.batches[b].attempt = LOGGER_RETRY_COUNT - 1
    THEN Finally(lg, b, IF st \in {403, NoStatus} THEN "returned" ELSE "thrown")
    ELSE [lg EXCEPT !.batches[b].pc = "waiting"]

\* the wait between two attempts is over: the next iteration posts again
LogOnTimer(lg, b) ==
    [lg EXCEPT !.batches[b].pc = "posting", !.batches[b].attempt = @ + 1,
               !.batches[b].posts = @ + 1]

\* ------------------------------------------------------------------ headers
Bearer(k) == <<"Bearer", k>>

PrepareAuthHeaders ==
    [xApiKey |-> apiKey, authorization |-> Bearer(apiKey), contentType |-> "application/json"]

CallerHeaders ==
    {[xApiKey |-> "", authorization |-> <<>>, contentType |-> "application/json"],
     [xApiKey |-> "stale", authorization |-> Bearer("stale"), contentType |-> "application/json"]}

InjectAuth(h) ==
    [h EXCEPT !.xApiKey = apiKey, !.authorization = Bearer(apiKey)]

\* what a transport that writes to the header object it was handed leaves
Mutated(h) ==
    [h EXCEPT !.xApiKey = "mutated", !.authorization = Bearer("mutated")]

\* ------------------------------------------------------------------ backoff
RECURSIVE Pow2(_)
Pow2(n) == IF n <= 0 THEN 1 ELSE 2 * Pow2(n - 1)

\* delays are kept as integers in units of 1/DelayDenominator ms
DelayDenominator == 2 * JitterSteps

\* the jitter without its floor of one half: retryDelay * 2^attempt * random
BackoffDelayNoFloor(rd, k, j) == rd * Pow2(k) * 2 * j

\* retryDelay * 2^attempt * (0.5 + random * 0.5), random = j / JitterSteps
BackoffDelay(rd, k, j) == rd * Pow2(k) * (JitterSteps + j)

\* a catch block that waits after every failure, the last one included
RetryAfterEveryFailure(error, k, rc) == k < rc

\* a catch block that gives up on the statuses its if/else chain does not name
RetryAfterNamedStatusOnly(error, k, rc) ==
    k < rc - 1 /\ (error.status \in {NoStatus, 401, 403} \/ error.status >= 500)

\* the catch block: the if/else chain on error.status only logs; whether
\* another attempt follows is decided by the attempt number
RetryAfter(error, k, rc) == k < rc - 1

\* the loop condition of the for statement
LoopCondition(k, rc) == k < rc

\* a catch block that throws a new error in place of the one it caught
RethrownAsNew(error) == RawError("Request failed")

\* the error the catch block throws on the last attempt
Rethrown(error) == error

\* --------------------------------------------------------------- call state
IdleCall ==
    [op        |-> "none",      \* the operation invoked
     stage     |-> "none",      \* the request sequence the operation is in
     pc        |-> "idle",      \* "idle", "inflight", "backoff", "done"
     input     |-> 0,           \* the options argument of the operation
     emailStarts |-> 0,         \* invocations of sendEmail made by the operation
     body      |-> [kind |-> "none", attachments |-> <<>>],  \* the request body
     attempt   |-> 0,           \* the loop variable of _makeRequestWithRetry
     headers   |-> [xApiKey |-> "", authorization |-> <<>>, contentType |-> ""],
     lastError |-> NoResult,    \* the local lastError
     timer     |-> NoTimer,     \* delay of the pending setTimeout
     nCalls    |-> 0,           \* transport invocations made so far
     nWaits    |-> 0,           \* backoff timers that have fired
     lastResp  |-> NoResult,    \* what the transport last settled with
     outcome   |-> NoResult,    \* how the operation ended
     out       |-> {},          \* requests handed to the transport in this run
     logs      |-> <<>>]        \* calls of logger.log made in this run

\* const config = { headers }: the config handed to axios names no timeout
AxiosConfigTimeout == NoTimeout

Request(cs, k) ==
    [seq |-> cs.nCalls + 1, attempt |-> k, stage |-> cs.stage, headers |-> cs.headers,
     body |-> cs.body, timeout |-> AxiosConfigTimeout]

\* the promise of _makeRequestWithRetry settles with res
RECURSIVE OnExecutorResult(_, _)

\* one iteration of the for loop, entered with attempt = k; when the loop
\* condition fails the function ends in  throw lastError
ExecLoop(cs, k) ==
    IF LoopCondition(k, retryCount)
    THEN [cs EXCEPT !.attempt = k, !.pc = "inflight", !.nCalls = @ + 1,
                    !.out = @ \cup {Request(cs, k)}]
    ELSE OnExecutorResult([cs EXCEPT !.attempt = k], cs.lastError)

\* _makeRequestWithRetry(url, data, h, method) up to its first await
ExecEnter(cs, h) ==
    ExecLoop([cs EXCEPT !.headers = InjectAuth(h), !.lastError = NoResult], 0)

\* an executor that does not return on success and goes on with the loop
ExecOnSuccessNoReturn(cs, body) == ExecLoop(cs, cs.attempt + 1)

\* return await httpUtils.post(...)
ExecOnSuccess(cs, body) == OnExecutorResult(cs, body)

\* a catch block that starts the timer and does not await it
ExecOnFailureNoAwait(cs, error, j) ==
    IF RetryAfter(error, cs.attempt, retryCount)
    THEN ExecLoop([cs EXCEPT !.lastError = error,
                             !.timer = BackoffDelay(retryDelay, cs.attempt, j)],
                  cs.attempt + 1)
    ELSE OnExecutorResult([cs EXCEPT !.lastError = error], Rethrown(error))

\* catch (error): remember it, then wait for the backoff or rethrow
ExecOnFailure(cs, error, j) ==
    IF RetryAfter(error, cs.attempt, retryCount)
    THEN [cs EXCEPT !.lastError = error, !.pc = "backoff",
                    !.timer = BackoffDelay(retryDelay, cs.attempt, j)]
    ELSE OnExecutorResult([cs EXCEPT !.lastError = error], Rethrown(error))

\* a wait whose promise never resolves: the function is not resumed
ExecOnTimerNeverResumes(cs) == [cs EXCEPT !.timer = NoTimer]

\* an executor whose attempt counter is a field of the client, shared by
\* all the calls that run on it
ExecOnTimerSharedCounter(cs) ==
    LET shared == CHOOSE k \in {call[c].attempt : c \in Calls} :
                      \A c \in Calls : call[c].attempt <= k
    IN ExecLoop([cs EXCEPT !.timer = NoTimer, !.nWaits = @ + 1], shared + 1)

\* the awaited setTimeout promise resolves: attempt++ and the next iteration
ExecOnTimer(cs) ==
    ExecLoop([cs EXCEPT !.timer = NoTimer, !.nWaits = @ + 1], cs.attempt + 1)

\* --------------------------------------------------------- public operations
\* the promise of the top-level operation settles with res
Settle(cs, res) == [cs EXCEPT !.pc = "done", !.outcome = res]

\* error.message.includes("already exists")
IncludesAlreadyExists(res) == res.msg[1] = "already exists"

\* a catch block that prefers the error string of the body to its message
DataMessageErrorFirst(d) == "data.error"

\* httpError.data.message || httpError.data.error
DataMessage(d) ==
    CASE d = "exists" -> "already exists"
      [] d = "errorOnly" -> "data.error"
      [] OTHER -> "data.message"

\* the inner catch of sendEmail and of createContacts: the failure of the
\* executor becomes a MetiganError with the code of the operation
InnerCatch(httpError, failedCode) ==
    IF httpError.kind = "none"
    THEN MetiganError("An unexpected error occurred", UNEXPECTED_ERROR)
    ELSE IF httpError.status # NoStatus
    THEN IF httpError.data # "none"
         THEN MetiganError(DataMessage(httpError.data), failedCode)
         ELSE [MetiganError("Request failed with status", failedCode)
                  EXCEPT !.msg = <<"Request failed with status", httpError.status>>]
    ELSE MetiganError("Failed to connect to the service", NETWORK_ERROR)

JsonBody(processed) ==
    [kind |-> "json",
     attachments |-> [i \in 1..Len(processed) |-> processed[i].bytes]]

\* the FormData of the browser branch: the File objects themselves
MultipartBody(files) ==
    [kind |-> "multipart",
     attachments |-> [i \in 1..Len(files) |-> files[i].size]]

\* statusCode as the inner catch block leaves it
StatusCode(httpError) == IF httpError.status # NoStatus THEN httpError.status ELSE 500

\* the calls of logger.log an operation makes once its request sequence has
\* ended with res: one after a success; after a failure one in the inner
\* catch block and one in the outer one, which catches what the inner one
\* throws
LogsOf(endpoint, errorEndpoint, res) ==
    IF res.kind = "ok"
    THEN <<[endpoint |-> endpoint, status |-> 200]>>
    ELSE <<[endpoint |-> endpoint, status |-> StatusCode(res)],
           [endpoint |-> errorEndpoint, status |-> StatusCode(res)]>>

\* the call of logger.log in the outer catch block when the operation threw
\* before its request
ErrorLog(errorEndpoint) == <<[endpoint |-> errorEndpoint, status |-> 500]>>

\* the operation has called logger.log for each of entries
Logged(cs, entries) == [cs EXCEPT !.logs = @ \o entries]

\* a log() whose promise rejects while the logger is enabled
AfterLogsRejecting(res) == IF logger.disabled THEN res ELSE RawError("log failed")

\* await this.logger.log(...): log() has no throw and awaits nothing, its
\* promise resolves and the operation goes on with what it had
AfterLogs(res) == res

RECURSIVE OnSendEmailResult(_, _)
RECURSIVE SendEmail(_, _)

\* sendEmail(options) up to its first await, or to its end
SendEmail(cs0, stage) ==
    LET cs == [cs0 EXCEPT !.stage = stage, !.emailStarts = @ + 1]
        opts == cs.input
        validation == ValidateMessageData(opts)
    IN IF ~validation.isValid
       THEN OnSendEmailResult(Logged(cs, ErrorLog("/email/send/error")),
                              AfterLogs(MetiganError(validation.error, validation.code)))
       ELSE IF Len(opts.attachments) > 0
       THEN IF isBrowser
            THEN IF \E i \in 1..Len(opts.attachments) : ~opts.attachments[i].isFile
                 THEN OnSendEmailResult(Logged(cs, ErrorLog("/email/send/error")),
                        AfterLogs(MetiganError("In browser environments, attachments must be File objects",
                                               INVALID_ATTACHMENT)))
                 ELSE ExecEnter([cs EXCEPT !.body = MultipartBody(opts.attachments)],
                                PrepareAuthHeaders)
            ELSE LET processed == ProcessAttachments(opts.attachments)
                 IN IF ~processed.ok
                    THEN OnSendEmailResult(Logged(cs, ErrorLog("/email/send/error")),
                                           AfterLogs(processed.error))
                    ELSE ExecEnter([cs EXCEPT !.body = JsonBody(processed.list)],
                                   PrepareAuthHeaders)
       ELSE ExecEnter([cs EXCEPT !.body = JsonBody(<<>>)], PrepareAuthHeaders)

\* the promise of sendEmail settles with res: for the combined operation
\* the catch block sends again when the message includes "already exists"
OnSendEmailResult(cs, res) ==
    IF cs.op = "sendEmailAndCreateContacts" /\ cs.stage = "email"
       /\ res.kind = "metigan" /\ IncludesAlreadyExists(res)
    THEN SendEmail(cs, "emailAgain")
    ELSE Settle(cs, res)

\* the promise of createContacts settles with res
OnCreateContactsResult(cs, res) ==
    IF cs.op = "sendEmailAndCreateContacts"
    THEN IF res.kind = "ok" THEN SendEmail(cs, "email")
         ELSE IF res.kind = "metigan" /\ IncludesAlreadyExists(res)
         THEN SendEmail(cs, "emailAgain")
         ELSE Settle(cs, res)
    ELSE Settle(cs, res)

\* createContacts(emails, opts) up to its first await, or to its end
CreateContacts(cs0, emails, opts) ==
    LET cs == [cs0 EXCEPT !.stage = "contacts"]
        validation == ValidateContactOptions(opts, emails)
    IN IF ~validation.isValid
       THEN OnCreateContactsResult(Logged(cs, ErrorLog("/contacts/create/error")),
                                   AfterLogs(MetiganError(validation.error, validation.code)))
       ELSE ExecEnter([cs EXCEPT !.body = JsonBody(<<>>)], PrepareAuthHeaders)

\* sendEmailAndCreateContacts(options) up to its first await, or to its end
SendEmailAndCreateContacts(cs0) ==
    LET contactOptions ==
            IF ~cs0.input.contactOptions.present THEN ContactOptions(TRUE, "")
            ELSE [cs0.input.contactOptions EXCEPT !.createContact = TRUE]
        cs == [cs0 EXCEPT !.input.contactOptions = contactOptions]
    IN IF contactOptions.audienceId = ""
       THEN Settle(cs, MetiganError("audienceId is required when creating contacts",
                                    INVALID_AUDIENCE_ID))
       ELSE IF ~cs.input.hasRecipients
       THEN Settle(cs, RawError("TypeError"))
       ELSE CreateContacts(cs,
               [i \in 1..Len(cs.input.recipients) |-> ExtractEmailAddress(cs.input.recipients[i])],
               ContactOptions(TRUE, contactOptions.audienceId))

OnExecutorResult(cs, res) ==
    CASE cs.stage = "contacts" ->
            OnCreateContactsResult(
                Logged(cs, LogsOf("/contacts/create", "/contacts/create/error", res)),
                AfterLogs(IF res.kind = "ok" THEN res ELSE InnerCatch(res, API_REQUEST_FAILED)))
      [] cs.stage \in {"email", "emailAgain"} ->
            OnSendEmailResult(
                Logged(cs, LogsOf("/email/send", "/email/send/error", res)),
                AfterLogs(IF res.kind = "ok" THEN res ELSE InnerCatch(res, EMAIL_SEND_FAILED)))
      [] OTHER -> Settle(cs, res)

\* ------------------------------------------------------------------- inputs
ValidOptions ==
    [from |-> PlainEmail, hasRecipients |-> TRUE, recipients |-> <<NamedEmail>>,
     subject |-> "s", content |-> "c", contactOptions |-> ContactOptions(TRUE, "aud"),
     attachments |-> <<>>]

SmallSize == 1024
LargeSize == 8388608

AttachmentLists ==
    {<<FileItem(<<"a", ".", "PDF">>, SmallSize, "")>>,
     <<FileItem(<<"large", ".", "bin">>, LargeSize, "")>>,
     <<NodeItem(<<"b", ".", "txt">>, MAX_FILE_SIZE, "")>>,
     <<NodeItem(<<"large", ".", "bin">>, LargeSize, "application/octet-stream")>>,
     <<CustomItem(<<"c", ".", "csv">>, "string", SmallSize, "text/csv"),
       CustomItem(<<"large", ".", "bin">>, "Uint8Array", MAX_FILE_SIZE + 1, "")>>,
     <<NoItem>>}

\* the options objects callers pass: the valid one and its one-field variants
EmailOptions ==
    {ValidOptions}
    \cup {[ValidOptions EXCEPT !.from = f] : f \in {NoString, NotAnEmail, NamedEmail}}
    \cup {[ValidOptions EXCEPT !.recipients = r] : r \in {<<>>, <<PlainEmail, NoDotEmail>>}}
    \cup {[ValidOptions EXCEPT !.hasRecipients = FALSE, !.recipients = <<>>]}
    \cup {[ValidOptions EXCEPT !.subject = ""], [ValidOptions EXCEPT !.content = ""]}
    \cup {[ValidOptions EXCEPT !.contactOptions = o] :
             o \in {NoContactOptions, ContactOptions(TRUE, ""), ContactOptions(FALSE, "aud")}}
    \cup {[ValidOptions EXCEPT !.attachments = a] : a \in AttachmentLists}


\* --------------------------------------------------------------------- Init
InitClient ==
    /\ options \in OptionSets
    /\ apiKey = "key"
    /\ baseUrl = UrlOrDefault(options.baseUrl)
    /\ retryCount = OrDefault(options.retryCount, DEFAULT_RETRY_COUNT)
    /\ retryDelay = OrDefault(options.retryDelay, DEFAULT_RETRY_DELAY)
    /\ timeout = OrDefault(options.timeout, DEFAULT_TIMEOUT)
    /\ logger = IF options.disableLogs THEN Disable(NewLogger) ELSE NewLogger
    /\ construction = Constructed(apiKey)
    /\ isBrowser \in BOOLEAN

InitCalls ==
    /\ call = [c \in Calls |-> IdleCall]
    /\ inflight = {}

\* _processAttachments has not been called
NotCalled == [called |-> FALSE, value |-> ProcessAttachments(<<>>)]

\* _getMimeType has not been called
NotLookedUp == "not called"

\* no direct call of _getMimeType is made
InitNoLookup ==
    /\ fileName = <<>>
    /\ mimeType = NotLookedUp
    /\ LogsDisabled(options)

\* no direct call of _processAttachments is made
InitNoBatch ==
    /\ batch = <<>>
    /\ result = NotCalled
    /\ InitNoLookup

\* one call on the client, every transport behaviour
Init ==
    /\ InitClient
    /\ InitCalls
    /\ InitNoBatch
    /\ script \in [Calls -> Scripts]
    /\ \A c \in Calls \ {MainCall} : script[c] = [i \in 1..ScriptLen |-> TRUE]
    /\ silent \in BOOLEAN

\* ------------------------------------------------------------------ actions
\* a run of an executor that counts the attempts it has left in the
\* retryCount field of the client
RunCountingDown(c, settled, cs) ==
    /\ call' = [call EXCEPT ![c] = [cs EXCEPT !.out = {}, !.logs = <<>>]]
    /\ inflight' = (inflight \ settled) \cup {[call |-> c, req |-> r] : r \in cs.out}
    /\ logger' = LogAll(logger, cs.logs)
    /\ retryCount' = IF cs.pc = "backoff" /\ retryCount > 1 THEN retryCount - 1 ELSE retryCount
    /\ UNCHANGED <<options, apiKey, retryDelay, timeout, isBrowser, baseUrl, construction,
                   script, silent, batch, result, helperVars>>

\* one run of call c: it hands cs.out to the transport and suspends as cs
Run(c, settled, cs) ==
    /\ call' = [call EXCEPT ![c] = [cs EXCEPT !.out = {}, !.logs = <<>>]]
    /\ inflight' = (inflight \ settled) \cup {[call |-> c, req |-> r] : r \in cs.out}
    /\ logger' = LogAll(logger, cs.logs)
    /\ UNCHANGED <<clientVars, script, silent, batch, result, helperVars>>

\* a caller invokes _makeRequestWithRetry directly, as the unit tests do
InvokeExecutor(c) ==
    /\ call[c].pc = "idle"
    /\ \E h \in CallerHeaders :
         Run(c, {}, ExecEnter([call[c] EXCEPT !.op = "executor", !.stage = "executor",
                                              !.body = JsonBody(<<>>)], h))

InvokeSendEmail(c, O) ==
    /\ call[c].pc = "idle"
    /\ \E o \in O :
         Run(c, {}, SendEmail([call[c] EXCEPT !.op = "sendEmail", !.input = o], "email"))

InvokeCreateContacts(c) ==
    /\ call[c].pc = "idle"
    /\ \E o \in EmailOptions :
         Run(c, {}, CreateContacts([call[c] EXCEPT !.op = "createContacts", !.input = o],
                                   o.recipients, o.contactOptions))

InvokeSendEmailAndCreateContacts(c) ==
    /\ call[c].pc = "idle"
    /\ \E o \in EmailOptions :
         Run(c, {}, SendEmailAndCreateContacts(
                       [call[c] EXCEPT !.op = "sendEmailAndCreateContacts", !.input = o]))

\* the transport resolves the pending request of call c
TransportSucceeds(c) ==
    /\ call[c].pc = "inflight"
    /\ \E f \in inflight :
        /\ f.call = c
        /\ ~silent
        /\ ScriptAt(script[c], f.req.seq)
        /\ LET body == Success(f.req.seq)
           IN Run(c, {f}, ExecOnSuccess([call[c] EXCEPT !.lastResp = body], body))

\* the transport rejects the pending request of call c with a failure of
\* the behaviour B; when m holds it has written to the header object it was
\* handed.  Towards a silent server a request is rejected only when its
\* config names a timeout: axios then aborts it, and processHttpError makes
\* a failure without a status of that
TransportFails(c, B) ==
    /\ call[c].pc = "inflight"
    /\ \E f \in inflight, j \in 0..(JitterSteps - 1) :
        /\ f.call = c
        /\ IF silent THEN f.req.timeout # NoTimeout ELSE ~ScriptAt(script[c], f.req.seq)
        /\ \E sd \in B[f.req.stage].failures, m \in B[f.req.stage].mutates :
           /\ silent => sd = <<NoStatus, "none">>
           /\ LET error == Failure(sd[1], sd[2], f.req.seq)
                  cs == [call[c] EXCEPT !.lastResp = error,
                                        !.headers = IF m THEN Mutated(@) ELSE @]
              IN Run(c, {f}, ExecOnFailure(cs, error, j))

\* the backoff timer of call c fires
TimerFires(c) ==
    /\ call[c].pc = "backoff"
    /\ call[c].timer # NoTimer
    /\ Run(c, {}, ExecOnTimer(call[c]))

Next ==
    \/ InvokeExecutor(MainCall)
    \/ InvokeSendEmail(MainCall, EmailOptions)
    \/ InvokeCreateContacts(MainCall)
    \/ InvokeSendEmailAndCreateContacts(MainCall)
    \/ TransportSucceeds(MainCall)
    \/ TransportFails(MainCall, Behaviours)
    \/ TimerFires(MainCall)

Spec == Init /\ [][Next]_vars

\* the event loop runs what is ready: a settled transport promise resumes
\* its call and a timer that is due fires
Fairness ==
    /\ WF_vars(TransportSucceeds(MainCall))
    /\ WF_vars(TransportFails(MainCall, Behaviours))
    /\ WF_vars(TimerFires(MainCall))

\* the executor alone, called directly, towards every transport behaviour
InitLive ==
    /\ InitClient
    /\ options.retryDelay = NotGiven
    /\ options.timeout = NotGiven
    /\ ~isBrowser
    /\ InitCalls
    /\ InitNoBatch
    /\ script \in [Calls -> Scripts]
    /\ \A c \in Calls \ {MainCall} : script[c] = [i \in 1..ScriptLen |-> TRUE]
    /\ silent \in BOOLEAN

NextLive ==
    \/ InvokeExecutor(MainCall)
    \/ TransportSucceeds(MainCall)
    \/ TransportFails(MainCall, Behaviours)
    \/ TimerFires(MainCall)

SpecLive == InitLive /\ [][NextLive]_vars /\ Fairness

\* several calls at once on one client, few transport behaviours
InitConc ==
    /\ InitClient
    /\ options.retryCount \in {Given(1), Given(2)}
    /\ options.retryDelay = Given(1)
    /\ options.timeout = NotGiven
    /\ ~isBrowser
    /\ InitCalls
    /\ InitNoBatch
    /\ script \in [Calls -> Scripts]
    /\ \A c \in Calls, i \in 2..ScriptLen : script[c][i] = script[c][2]
    /\ silent = FALSE

NextConc ==
    \E c \in Calls :
        \/ InvokeExecutor(c)
        \/ InvokeSendEmail(c, {ValidOptions})
        \/ TransportSucceeds(c)
        \/ TransportFails(c, FewBehaviours)
        \/ TimerFires(c)

SpecConc == InitConc /\ [][NextConc]_vars

\* ---------------------------------------------- _processAttachments alone
\* the items a caller puts into a batch: each variant within and over the
\* limit, an item of no known shape, and items that have the fields of more
\* than one variant
ItemSet ==
    {FileItem(<<"a", ".", "PDF">>, SmallSize, ""),
     FileItem(<<"large", ".", "bin">>, LargeSize, ""),
     NodeItem(<<"b", ".", "txt">>, MAX_FILE_SIZE, ""),
     NodeItem(<<"large", ".", "bin">>, LargeSize, "application/octet-stream"),
     CustomItem(<<"c", ".", "csv">>, "string", SmallSize, "text/csv"),
     CustomItem(<<"large", ".", "bin">>, "Uint8Array", MAX_FILE_SIZE + 1, ""),
     NoItem,
     [NoItem EXCEPT !.hasBuffer = TRUE, !.bufferLength = SmallSize],
     [NodeItem(<<"n", ".", "JPG">>, SmallSize, "") EXCEPT
         !.hasContent = TRUE, !.contentKind = "ArrayBuffer", !.contentSize = LargeSize,
         !.hasFilename = TRUE, !.filename = <<"c", ".", "zip">>, !.contentType = "application/zip"],
     [FileItem(<<"f", ".", "png">>, SmallSize, "image/png") EXCEPT
         !.hasBuffer = TRUE, !.bufferLength = LargeSize,
         !.hasOriginalname = TRUE, !.originalname = <<"n", ".", "gif">>]}

RECURSIVE BatchesOf(_)
BatchesOf(n) ==
    IF n = 0 THEN {<<>>}
    ELSE LET shorter == BatchesOf(n - 1)
         IN shorter \cup {Append(b, x) : b \in {b \in shorter : Len(b) = n - 1}, x \in ItemSet}

Batches == BatchesOf(MaxBatch)

\* a client in either environment and a batch
InitAttach ==
    /\ InitClient
    /\ options = NoOptions
    /\ InitCalls
    /\ script = [c \in Calls |-> [i \in 1..ScriptLen |-> TRUE]]
    /\ silent = FALSE
    /\ batch \in Batches
    /\ result = NotCalled
    /\ InitNoLookup

\* a caller invokes _processAttachments(batch) directly, as the unit tests
\* do; it makes no transport call and settles in the same run
InvokeProcessAttachments ==
    /\ ~result.called
    /\ result' = [called |-> TRUE, value |-> ProcessAttachments(batch)]
    /\ UNCHANGED <<clientVars, script, silent, call, inflight, batch, helperVars, logger>>

NextAttach == InvokeProcessAttachments

SpecAttach == InitAttach /\ [][NextAttach]_vars

\* --------------------------------------------------- _getMimeType alone
\* the tokens of the file names a caller passes: the dot, extensions of the
\* table in both cases, an extension the table does not have, a base name
\* and a name every object inherits
NameTokens == {".", "pdf", "PDF", "Txt", "xyz", "report", "constructor"}

RECURSIVE NamesOf(_)
NamesOf(n) ==
    IF n = 0 THEN {<<>>}
    ELSE LET shorter == NamesOf(n - 1)
         IN shorter \cup {Append(b, x) : b \in {b \in shorter : Len(b) = n - 1}, x \in NameTokens}

\* no two neighbouring tokens of a name are runs of other characters: they
\* would be one token
Filenames ==
    {n \in NamesOf(MaxNameLen) : \A i \in 1..(Len(n) - 1) : n[i] = "." \/ n[i + 1] = "."}

InitMime ==
    /\ InitClient
    /\ options = NoOptions
    /\ ~isBrowser
    /\ InitCalls
    /\ script = [c \in Calls |-> [i \in 1..ScriptLen |-> TRUE]]
    /\ silent = FALSE
    /\ batch = <<>>
    /\ result = NotCalled
    /\ fileName \in Filenames
    /\ mimeType = NotLookedUp

\* a caller invokes _getMimeType(fileName) directly, as the unit tests do
InvokeGetMimeType ==
    /\ mimeType = NotLookedUp
    /\ mimeType' = GetMimeType(fileName)
    /\ UNCHANGED <<clientVars, script, silent, call, inflight, batch, result, fileName, logger>>

NextMime == InvokeGetMimeType

SpecMime == InitMime /\ [][NextMime]_vars

\* ------------------------------------------------------ the constructor alone
\* a caller is about to call  new Metigan(apiKey, options)
InitConstruct ==
    /\ options \in OptionSets
    /\ construction \in {Constructing(k) : k \in ApiKeyArgs}
    /\ apiKey = UnsetText
    /\ baseUrl = UnsetText
    /\ retryCount = Unset
    /\ retryDelay = Unset
    /\ timeout = Unset
    /\ logger = NewLogger
    /\ isBrowser \in BOOLEAN
    /\ InitCalls
    /\ script = [c \in Calls |-> [i \in 1..ScriptLen |-> TRUE]]
    /\ silent = FALSE
    /\ batch = <<>>
    /\ result = NotCalled
    /\ fileName = <<>>
    /\ mimeType = NotLookedUp

\* new Metigan(apiKey, options)
Construct ==
    /\ construction.kind = "new"
    /\ IF Falsy(construction.apiKey)
       THEN /\ construction' = ConstructorThrew(construction.apiKey,
                                   MetiganError("API key is required", INVALID_API_KEY))
            /\ UNCHANGED <<apiKey, baseUrl, retryCount, retryDelay, timeout, logger>>
       ELSE /\ apiKey' = construction.apiKey
            /\ baseUrl' = UrlOrDefault(options.baseUrl)
            /\ timeout' = OrDefault(options.timeout, DEFAULT_TIMEOUT)
            /\ retryCount' = OrDefault(options.retryCount, DEFAULT_RETRY_COUNT)
            /\ retryDelay' = OrDefault(options.retryDelay, DEFAULT_RETRY_DELAY)
            /\ logger' = IF options.disableLogs THEN Disable(NewLogger) ELSE NewLogger
            /\ construction' = Constructed(construction.apiKey)
    /\ UNCHANGED <<options, isBrowser, script, silent, call, inflight, batch, result, helperVars>>

NextConstruct == Construct

SpecConstruct == InitConstruct /\ [][NextConstruct]_vars

\* ------------------------------------------------------------ the logger alone
\* a client with logging enabled or disabled by its options
InitLogger ==
    /\ InitClient
    /\ options \in {NoOptions, [NoOptions EXCEPT !.disableLogs = FALSE]}
    /\ ~isBrowser
    /\ InitCalls
    /\ script = [c \in Calls |-> [i \in 1..ScriptLen |-> TRUE]]
    /\ silent = FALSE
    /\ batch = <<>>
    /\ result = NotCalled
    /\ fileName = <<>>
    /\ mimeType = NotLookedUp

\* a step of the logger: nothing of the client changes but the logger
LoggerStep(lg) ==
    /\ logger' = lg
    /\ UNCHANGED <<clientVars, script, silent, call, inflight, batch, result, helperVars>>

\* an operation of the client calls logger.log(endpoint, 200, method)
LogCalled ==
    /\ logger.accepted < MaxLogs
    /\ LoggerStep(Log(logger, "/email/send", 200))

\* the timer of scheduleBatchProcessing fires and runs processBatch
BatchTimerFires ==
    /\ logger.batchTimeout = PendingHandle
    /\ LoggerStep(ProcessBatch([logger EXCEPT !.batchTimeout = FiredHandle]))

\* the log API answers the POST of batch b
LogPostSucceeds(b) ==
    /\ b <= Len(logger.batches)
    /\ logger.batches[b].pc = "posting"
    /\ LoggerStep(LogOnSuccess(logger, b))

\* the POST of batch b fails
LogPostFails(b) ==
    /\ b <= Len(logger.batches)
    /\ logger.batches[b].pc = "posting"
    /\ \E st \in LogStatuses : LoggerStep(LogOnFailure(logger, b, st))

\* the timer between two attempts of batch b fires
LogRetryTimerFires(b) ==
    /\ b <= Len(logger.batches)
    /\ logger.batches[b].pc = "waiting"
    /\ LoggerStep(LogOnTimer(logger, b))

\* disableLogging()
DisableLogging ==
    /\ construction.kind = "client"
    /\ LoggerStep(Disable(logger))

\* enableLogging()
EnableLogging ==
    /\ construction.kind = "client"
    /\ LoggerStep(Enable(logger))

NextLogger ==
    \/ LogCalled
    \/ BatchTimerFires
    \/ \E b \in 1..MaxLogs : LogPostSucceeds(b)
    \/ \E b \in 1..MaxLogs : LogPostFails(b)
    \/ \E b \in 1..MaxLogs : LogRetryTimerFires(b)
    \/ DisableLogging
    \/ EnableLogging

\* timers that are due fire, and every POST returns (each has a timeout of
\* 5 s)
LoggerFairness ==
    /\ WF_vars(BatchTimerFires)
    /\ WF_vars(\E b \in 1..MaxLogs : LogPostSucceeds(b) \/ LogPostFails(b))
    /\ WF_vars(\E b \in 1..MaxLogs : LogRetryTimerFires(b))

SpecLogger == InitLogger /\ [][NextLogger]_vars /\ LoggerFairness

\* ------------------------------------------- operations of a logging client
\* the two calls made on the client
LoggedCalls == {MainCall, MainCall + 1}

\* what the callers pass: valid options, and options without a subject
LoggedOptions == {ValidOptions, [ValidOptions EXCEPT !.subject = ""]}

\* a client with logging enabled or disabled by its options, its retry
\* policy given or not
InitLogged ==
    /\ InitClient
    /\ options \in {[NoOptions EXCEPT !.disableLogs = d, !.retryCount = r, !.retryDelay = Given(1)] :
                       d \in BOOLEAN, r \in {Given(1), Given(2)}}
    /\ ~isBrowser
    /\ InitCalls
    /\ script \in [Calls -> Scripts]
    /\ \A c \in LoggedCalls, i \in 2..ScriptLen : script[c][i] = script[c][2]
    /\ \A c \in Calls \ LoggedCalls : script[c] = [i \in 1..ScriptLen |-> TRUE]
    /\ silent = FALSE
    /\ batch = <<>>
    /\ result = NotCalled
    /\ fileName = <<>>
    /\ mimeType = NotLookedUp

NextLogged ==
    \/ \E c \in LoggedCalls :
          \/ InvokeSendEmail(c, LoggedOptions)
          \/ TransportSucceeds(c)
          \/ TransportFails(c, FewBehaviours)
          \/ TimerFires(c)
    \/ BatchTimerFires
    \/ \E b \in 1..MaxLogs : LogPostSucceeds(b)
    \/ \E b \in 1..MaxLogs : LogPostFails(b)
    \/ \E b \in 1..MaxLogs : LogRetryTimerFires(b)
    \/ DisableLogging
    \/ EnableLogging

SpecLogged == InitLogged /\ [][NextLogged]_vars

\* =================================================================== claims
NoneInFlight(c) == \A f \in inflight : f.call # c

Done(c) == call[c].pc = "done"

\* the transport rejects each of the first retryCount requests of call c
AllAttemptsFail(c) == \A i \in 1..retryCount : ~ScriptAt(script[c], i)

AlwaysSucceeds(c) == \A i \in 1..Len(script[c]) : script[c][i]

C2_FailThenSucceedReturnsSecond ==
    \A c \in Calls :
        (call[c].op = "executor" /\ Done(c) /\ ~script[c][1] /\ script[c][2]) =>
            /\ call[c].outcome = Success(2)
            /\ call[c].nCalls = 2

SingleRequestOps == {"executor", "sendEmail", "createContacts"}

\* the first success ends the executor call it belongs to
FirstSuccessEnds(c) ==
    call[c].lastResp.kind = "ok" =>
        IF call[c].op \in SingleRequestOps
        THEN /\ Done(c) /\ NoneInFlight(c)
             /\ call[c].outcome = call[c].lastResp
             /\ call[c].nCalls = call[c].lastResp.seq
        ELSE \/ /\ Done(c) /\ NoneInFlight(c)
                /\ call[c].nCalls = call[c].lastResp.seq
                /\ \/ call[c].outcome = call[c].lastResp
                   \/ call[c].stage = "email" /\ call[c].outcome.kind = "metigan"
             \/ /\ call[c].pc = "inflight" /\ call[c].stage = "email"
                /\ call[c].attempt = 0
                /\ call[c].nCalls = call[c].lastResp.seq + 1

\* C3 as stated: the first successful attempt ends the call with its body
\* unchanged, and with an always-succeeding transport a public operation on
\* valid input makes exactly one transport call.
C3_OneTransportCallPerOperation ==
    \A c \in Calls :
        /\ call[c].op \in SingleRequestOps => FirstSuccessEnds(c)
        /\ (AlwaysSucceeds(c) /\ Done(c) /\ call[c].outcome.kind = "ok") =>
               call[c].nCalls = 1

\* C3 as amended: the first successful attempt of an executor call ends that
\* executor call with its body unchanged; with an always-succeeding
\* transport an operation on valid input makes one transport call for each
\* request it issues: one, and two for sendEmailAndCreateContacts.
C3_FirstSuccessEndsTheRequest ==
    \A c \in Calls :
        /\ FirstSuccessEnds(c)
        /\ (AlwaysSucceeds(c) /\ Done(c) /\ call[c].outcome.kind = "ok") =>
               call[c].nCalls = IF call[c].op \in SingleRequestOps THEN 1 ELSE 2

C3_Witness ==
    /\ call[MainCall].op = "sendEmailAndCreateContacts"
    /\ AlwaysSucceeds(MainCall) /\ Done(MainCall)
    /\ call[MainCall].outcome = Success(2)

\* the steps in which call c hands a retry (an attempt after the first of an
\* executor call) to the transport
RetryStarts(c) ==
    \E f \in inflight' \ inflight : f.call = c /\ f.req.attempt > 0

\* C4: within a call the attempts are sequential: at most one request of the
\* call is in flight, none while its backoff timer is pending, and attempt
\* k+1 is handed to the transport only in the step in which the timer armed
\* after the observed failure of attempt k fires.
C4_AttemptsAreSequential ==
    /\ [](\A c \in Calls :
            /\ Cardinality({f \in inflight : f.call = c}) <= 1
            /\ call[c].timer # NoTimer => NoneInFlight(c))
    /\ [][\A c \in Calls : RetryStarts(c) =>
            /\ NoneInFlight(c)
            /\ call[c].pc = "backoff"
            /\ call[c].timer # NoTimer /\ call'[c].timer = NoTimer
            /\ call'[c].nWaits = call[c].nWaits + 1
            /\ call[c].lastError.kind = "fail"
            /\ call[c].lastError.seq = call[c].nCalls
            /\ \A f \in inflight' \ inflight :
                   f.req.attempt = call[c].attempt + 1 /\ f.req.seq = call[c].nCalls + 1
         ]_vars

C4_Witness ==
    /\ call[MainCall].pc = "inflight"
    /\ call[MainCall].attempt = 2
    /\ call[MainCall].nWaits = 2

\* C5: calls that run concurrently on one client have independent retry
\* loops: each makes the attempts its own transport responses call for, up
\* to retryCount, and ends with its own result; a call that waits for a
\* response or a timer never disables the next step of another call.
C5_ConcurrentCallsAreIndependent ==
    \A c \in Calls :
        /\ call[c].attempt < retryCount
        /\ Done(c) =>
              IF AllAttemptsFail(c)
              THEN /\ call[c].nCalls = retryCount
                   /\ call[c].outcome.kind \in {"fail", "metigan"}
                   /\ call[c].lastResp.seq = retryCount
              ELSE /\ ScriptAt(script[c], call[c].nCalls)
                   /\ \A i \in 1..(call[c].nCalls - 1) : ~ScriptAt(script[c], i)
                   /\ call[c].outcome = Success(call[c].nCalls)
        /\ call[c].pc = "idle" => ENABLED InvokeExecutor(c)
        /\ call[c].pc = "inflight" =>
              ENABLED (TransportSucceeds(c) \/ TransportFails(c, FewBehaviours))
        /\ call[c].pc = "backoff" => ENABLED TimerFires(c)

C5_Witness ==
    \E c1, c2 \in Calls :
        /\ c1 # c2
        /\ call[c1].pc = "backoff" /\ call[c1].nCalls = 1
        /\ Done(c2) /\ call[c2].nCalls = 2 /\ call[c2].outcome.kind = "fail"

\* what the operation of call c validates before it sends anything
InputIsInvalid(c) ==
    CASE call[c].op = "sendEmail" -> ~ValidateMessageData(call[c].input).isValid
      [] call[c].op = "createContacts" ->
            ~ValidateContactOptions(call[c].input.contactOptions, call[c].input.recipients).isValid
      [] call[c].op = "sendEmailAndCreateContacts" ->
            ~ValidateMessageData(call[c].input).isValid
      [] OTHER -> FALSE

ValidationCodes ==
    {INVALID_EMAIL_FORMAT, INVALID_RECIPIENT, MISSING_REQUIRED_FIELD, INVALID_AUDIENCE_ID}

\* C6: for every public operation, when the validation of its input fails
\* the operation rejects with a MetiganError carrying the validation code and
\* the transport is invoked zero times.
C6_InvalidInputMakesNoTransportCall ==
    \A c \in Calls :
        InputIsInvalid(c) =>
            /\ call[c].nCalls = 0
            /\ Done(c) => (call[c].outcome.kind = "metigan"
                           /\ call[c].outcome.code \in ValidationCodes)

\* the raw size of an attachment item, by the fields of its variant
RawSize(file) ==
    IF file.isFile THEN file.size
    ELSE IF file.hasBuffer /\ file.hasOriginalname THEN file.bufferLength
    ELSE file.contentSize

HasOversized(attachments) ==
    \E i \in 1..Len(attachments) : RawSize(attachments[i]) > MAX_FILE_SIZE

\* C7: in every environment and for every attachment variant, a send
\* operation whose attachment list has an item larger than MAX_FILE_SIZE
\* rejects with an error and makes no transport call; no request that
\* carries an oversized attachment is handed to the transport.
C7_NoOversizedAttachmentIsSent ==
    /\ \A f \in inflight : \A i \in 1..Len(f.req.body.attachments) :
           f.req.body.attachments[i] <= MAX_FILE_SIZE
    /\ \A c \in Calls :
           (call[c].op = "sendEmail" /\ HasOversized(call[c].input.attachments)) =>
               /\ call[c].nCalls = 0
               /\ Done(c) => call[c].outcome.kind = "metigan"

\* C8: on every attempt the headers handed to the transport carry the API
\* key of the client in x-api-key and Authorization, also when the header
\* object of an earlier attempt was written to in between.
C8_EveryAttemptCarriesTheCredential ==
    \A f \in inflight :
        /\ f.req.headers.xApiKey = apiKey
        /\ f.req.headers.authorization = Bearer(apiKey)

\* C9: whether a failed attempt is followed by another one depends on the
\* attempt number only: after a failure of any status the executor waits
\* for a retry exactly when fewer than retryCount attempts have been made.
C9_RetryDependsOnAttemptOnly ==
    [][\A c \in Calls :
          (call'[c].lastResp # call[c].lastResp /\ call'[c].lastResp.kind = "fail") =>
              ((call'[c].pc = "backoff" /\ call'[c].timer # NoTimer)
                  <=> (call[c].attempt + 1 < retryCount))
      ]_vars

C9_Witness ==
    /\ call[MainCall].pc = "backoff"
    /\ call[MainCall].attempt = 1
    /\ call[MainCall].lastError.status \in {400, 404, 422, 429}

\* C10: the wait armed after the failure of attempt k (0-based) is at least
\* retryDelay * 2^k * 0.5 and less than retryDelay * 2^k, whatever the draw
\* (timer values are in units of 1/DelayDenominator ms).
C10_BackoffWithinJitterRange ==
    \A c \in Calls :
        call[c].timer # NoTimer =>
            /\ 2 * call[c].timer >= retryDelay * Pow2(call[c].attempt) * DelayDenominator
            /\ call[c].timer < retryDelay * Pow2(call[c].attempt) * DelayDenominator

C10_Witness ==
    /\ call[MainCall].pc = "backoff"
    /\ call[MainCall].attempt = 1
    /\ 2 * call[MainCall].timer > retryDelay * Pow2(1) * DelayDenominator

C12_ZeroDelayRetriesImmediately ==
    \A c \in Calls :
        (options.retryDelay = Given(0) /\ call[c].timer # NoTimer) =>
            call[c].timer = 0

\* C13: every transport attempt is bounded by a per-attempt timeout taken
\* from the timeout option of the client (default 30000 ms): each request
\* handed to the transport carries that timeout, so that an attempt the
\* server never responds to ends in a failure.
C13_EveryAttemptCarriesTheTimeout ==
    \A f \in inflight :
        /\ f.req.timeout # NoTimeout
        /\ f.req.timeout = timeout

PublicOps == {"sendEmail", "createContacts", "sendEmailAndCreateContacts"}

\* C15: every public operation either resolves with the success payload of
\* the transport or rejects with a MetiganError; for no input and no
\* transport failure does its caller receive any other error.
C15_OperationsRejectWithMetiganError ==
    \A c \in Calls :
        (call[c].op \in PublicOps /\ Done(c)) =>
            \/ call[c].outcome.kind = "ok" /\ call[c].outcome = call[c].lastResp
            \/ call[c].outcome.kind = "metigan"

\* C16: every error a public operation rejects with carries a numeric error
\* code, and when the failure behind it was an API response with an HTTP
\* status, the error carries that status too.
C16_ErrorsCarryCodeAndStatus ==
    \A c \in Calls :
        (call[c].op \in {"sendEmail", "createContacts"} /\ Done(c)
            /\ call[c].outcome.kind # "ok") =>
            /\ call[c].outcome.kind = "metigan" /\ call[c].outcome.code # 0
            /\ (call[c].lastResp.kind = "fail" /\ call[c].lastResp.status # NoStatus) =>
                  call[c].outcome.status = call[c].lastResp.status

\* C17: when the retry loop of sendEmail ends with a failure that has an
\* HTTP status, sendEmail rejects with a MetiganError whose message is the
\* message of the response body (its error string when it has no message)
\* if the body has an error field, and "Request failed with status <status>"
\* otherwise; when the failure has no status it rejects with the
\* network-error code.  The same for 400, 401 and 429.
C17_SendEmailErrorMessages ==
    \A c \in Calls :
        (call[c].op = "sendEmail" /\ Done(c) /\ call[c].lastResp.kind = "fail") =>
            LET failure == call[c].lastResp
                error == call[c].outcome
            IN /\ error.kind = "metigan"
               /\ IF failure.status = NoStatus
                  THEN error.code = NETWORK_ERROR
                  ELSE /\ error.code = EMAIL_SEND_FAILED
                       /\ CASE failure.data = "none" ->
                                  error.msg = <<"Request failed with status", failure.status>>
                            [] failure.data = "errorOnly" -> error.msg = <<"data.error", 0>>
                            [] failure.data = "exists" -> error.msg = <<"already exists", 0>>
                            [] failure.data = "other" -> error.msg = <<"data.message", 0>>

C17_Witness ==
    /\ call[MainCall].op = "sendEmail" /\ Done(MainCall)
    /\ call[MainCall].nCalls = 2
    /\ call[MainCall].lastResp.kind = "fail"
    /\ call[MainCall].lastResp.status = 429
    /\ call[MainCall].lastResp.data = "other"
    /\ call[MainCall].outcome.msg = <<"data.message", 0>>

\* the variant an item is handled as: a File in a browser, else an item
\* with buffer and originalname, else an item with content and filename
VariantOf(file) ==
    IF isBrowser /\ file.isFile THEN "file"
    ELSE IF file.hasBuffer /\ file.hasOriginalname THEN "node"
    ELSE IF file.hasContent /\ file.hasFilename THEN "custom"
    ELSE "invalid"

\* the raw size, the filename and the declared type of an item, from the
\* fields of the variant v
SizeAs(file, v) ==
    CASE v = "file" -> file.size
      [] v = "node" -> file.bufferLength
      [] v = "custom" -> file.contentSize
      [] OTHER -> 0

NameAs(file, v) ==
    CASE v = "file" -> file.name
      [] v = "node" -> file.originalname
      [] v = "custom" -> file.filename
      [] OTHER -> <<>>

TypeAs(file, v) ==
    CASE v = "file" -> file.type
      [] v = "node" -> file.mimetype
      [] v = "custom" -> file.contentType
      [] OTHER -> ""

Offending(file) ==
    VariantOf(file) = "invalid" \/ SizeAs(file, VariantOf(file)) > MAX_FILE_SIZE

FirstOffending(attachments) ==
    CHOOSE i \in 1..Len(attachments) :
        Offending(attachments[i]) /\ \A j \in 1..(i - 1) : ~Offending(attachments[j])

\* C18: attachment normalization is all-or-nothing and stops at the first
\* bad item: when an item of the batch has none of the three shapes or is
\* over the size limit, _processAttachments rejects with the error of the
\* first such item, yields no record for any item, the valid earlier ones
\* included, and examines no item after it.
C18_NormalizationIsAllOrNothing ==
    (result.called /\ \E i \in 1..Len(batch) : Offending(batch[i])) =>
        LET first == FirstOffending(batch)
        IN /\ ~result.value.ok
           /\ result.value.list = <<>>
           /\ result.value.examined = first
           /\ result.value.error.kind = "metigan"
           /\ result.value.error.code =
                 IF VariantOf(batch[first]) = "invalid" THEN INVALID_ATTACHMENT
                 ELSE ATTACHMENT_TOO_LARGE

C18_Witness ==
    /\ result.called /\ ~result.value.ok
    /\ Len(batch) = 3
    /\ ~Offending(batch[1]) /\ Offending(batch[2]) /\ ~Offending(batch[3])
    /\ VariantOf(batch[2]) = "custom"
    /\ result.value.examined = 2
    /\ result.value.list = <<>>

VariantInEveryEnvironment(file) ==
    IF file.isFile THEN "file" ELSE VariantOf([file EXCEPT !.isFile = FALSE])

\* the result of the call is that of handling every item as the variant V
\* gives it: the size, the filename and the content type of a record are
\* those of the fields of that variant, and the call rejects at the first
\* item that is of no variant or whose size as that variant is over the limit
HandledBy(V(_)) ==
    result.called =>
        LET bad(file) == V(file) = "invalid" \/ SizeAs(file, V(file)) > MAX_FILE_SIZE
            record(file) ==
                [filename |-> NameAs(file, V(file)),
                 bytes |-> SizeAs(file, V(file)),
                 contentType |-> IF TypeAs(file, V(file)) # "" THEN TypeAs(file, V(file))
                                 ELSE GetMimeType(NameAs(file, V(file)))]
            shown(rec) ==
                [filename |-> rec.filename, bytes |-> rec.bytes, contentType |-> rec.contentType]
        IN IF \E i \in 1..Len(batch) : bad(batch[i])
           THEN LET e == result.value.examined
                IN /\ ~result.value.ok
                   /\ e \in 1..Len(batch)
                   /\ bad(batch[e]) /\ \A j \in 1..(e - 1) : ~bad(batch[j])
                   /\ result.value.error.code =
                         IF V(batch[e]) = "invalid" THEN INVALID_ATTACHMENT
                         ELSE ATTACHMENT_TOO_LARGE
           ELSE /\ result.value.ok
                /\ Len(result.value.list) = Len(batch)
                /\ \A i \in 1..Len(batch) : shown(result.value.list[i]) = record(batch[i])

\* C20 as stated: in every environment each item is classified by the
\* priority File, then buffer and originalname, then content and filename,
\* else invalid, and handled with the fields of that variant.
C20_ClassifiedByPriorityInEveryEnvironment == HandledBy(VariantInEveryEnvironment)

\* C20 as amended: each item is classified by the priority File (in a
\* browser environment only), then buffer and originalname, then content and
\* filename, else invalid; an item with the fields of several variants is
\* handled as the first that applies, with the fields of that variant.
C20_ClassifiedByPriority == HandledBy(VariantOf)

C20_Witness ==
    /\ result.called /\ result.value.ok /\ isBrowser
    /\ Len(batch) = 2
    /\ batch[1].isFile /\ batch[1].hasBuffer /\ batch[1].hasOriginalname
    /\ batch[1].bufferLength > MAX_FILE_SIZE
    /\ result.value.list[1].filename = batch[1].name
    /\ result.value.list[1].bytes = batch[1].size
    /\ batch[2].hasBuffer /\ batch[2].hasOriginalname
    /\ batch[2].hasContent /\ batch[2].hasFilename
    /\ batch[2].contentSize > MAX_FILE_SIZE
    /\ result.value.list[2].filename = batch[2].originalname
    /\ result.value.list[2].bytes = batch[2].bufferLength

\* the extension of a file name: what follows its last dot; a name without
\* a dot has none
HasExtension(name) == IndexOf(name, ".") # 0

ExtensionOf(name) ==
    LET parts == Split(name, ".") IN parts[Len(parts)]

InTable(ext) == Len(ext) = 1 /\ ToLowerCase(ext[1]) \in MimeKeys

\* C21: the content type derived from a file name depends on its extension
\* only: an extension of the table, compared without regard to case, gives
\* the table's type; an extension the table does not have, and a name
\* without a dot whatever the name is, give application/octet-stream.
C21_MimeTypeByExtensionOnly ==
    mimeType # NotLookedUp =>
        IF HasExtension(fileName) /\ InTable(ExtensionOf(fileName))
        THEN mimeType = MimeMap(ToLowerCase(ExtensionOf(fileName)[1]))
        ELSE mimeType = "application/octet-stream"

\* C22: every request handed to the transport carries the API key of the
\* client in x-api-key and as a Bearer token in Authorization; it carries
\* Content-Type application/json when its body is a JSON object, and does
\* not carry it when its body is a multipart form (the browser attachment
\* path).
C22_HeadersOnEveryRequest ==
    \A f \in inflight :
        /\ f.req.headers.xApiKey = apiKey
        /\ f.req.headers.authorization = Bearer(apiKey)
        /\ f.req.body.kind = "json" => f.req.headers.contentType = "application/json"
        /\ f.req.body.kind = "multipart" => f.req.headers.contentType # "application/json"

\* the value of an option the constructor must keep: the caller's value
\* when it is given, the default when it is not
Expected(o, dflt) == IF o.given THEN o.value ELSE dflt

\* C24: constructing a client with an empty or missing API key throws the
\* MetiganError 'API key is required' and yields no client; otherwise the
\* retry count, retry delay and timeout of the client are the values the
\* caller supplied, for every retry count >= 1 and every delay >= 0, and are
\* 3, 1000 and 30000 only when the option is not supplied.
C24_ConstructorKeepsOptions ==
    construction.kind # "new" =>
        IF Falsy(construction.apiKey)
        THEN /\ construction.kind = "thrown"
             /\ construction.error.kind = "metigan"
             /\ construction.error.msg[1] = "API key is required"
             /\ apiKey = UnsetText /\ retryCount = Unset
        ELSE /\ construction.kind = "client"
             /\ apiKey = construction.apiKey
             /\ (options.retryCount.given => options.retryCount.value >= 1) =>
                    retryCount = Expected(options.retryCount, DEFAULT_RETRY_COUNT)
             /\ retryDelay = Expected(options.retryDelay, DEFAULT_RETRY_DELAY)
             /\ timeout = Expected(options.timeout, DEFAULT_TIMEOUT)

\* entry id is in the pending queue / in the copy of some batch
IsPending(id) == \E i \in 1..Len(logger.pendingLogs) : logger.pendingLogs[i].id = id

BatchHas(b, id) ==
    \E i \in 1..Len(logger.batches[b].logBatch) : logger.batches[b].logBatch[i].id = id

IsBatched(id) == \E b \in 1..Len(logger.batches) : BatchHas(b, id)

\* C25: while the logger stays enabled every entry log() accepted is in
\* the end part of a batch that is POSTed, for every interleaving of log()
\* calls, timer firings and batch completions, timers firing and POSTs
\* returning; the logger is never left with pending entries and neither a
\* batch timer pending nor a batch in progress that could schedule one.
C25_AcceptedEntriesAreSent ==
    /\ [](logger.pendingLogs # <<>> /\ ~logger.disabled =>
             logger.batchTimeout = PendingHandle \/ logger.isBatchProcessing)
    /\ \A id \in 1..MaxLogs : IsPending(id) ~> (IsBatched(id) \/ logger.disabled)

\* the activations of processBatch that have not ended
ActiveBatches == {b \in 1..Len(logger.batches) : logger.batches[b].pc # "done"}

\* this step is the firing of the batch timer
BatchTimerFiring ==
    /\ logger.batchTimeout = PendingHandle
    /\ logger'.batchTimeout # PendingHandle
    /\ ~logger'.disabled

\* C26: at most one log batch is being processed at any time: a batch
\* timer that fires while a batch is still being sent starts no second
\* send and removes no entry from the pending queue.
C26_OneBatchAtATime ==
    /\ [](Cardinality(ActiveBatches) <= 1)
    /\ [][BatchTimerFiring /\ ActiveBatches # {} =>
             /\ logger'.batches = logger.batches
             /\ logger'.pendingLogs = logger.pendingLogs]_vars

\* the timer has fired while a batch was being sent, with entries pending
C26_Witness ==
    /\ logger.isBatchProcessing
    /\ logger.batchTimeout = FiredHandle
    /\ logger.pendingLogs # <<>>
    /\ Cardinality(ActiveBatches) = 1

\* the POSTs made to the log API so far
RECURSIVE PostsOf(_)
PostsOf(bs) == IF bs = <<>> THEN 0 ELSE Head(bs).posts + PostsOf(Tail(bs))

\* C27: after disableLogging() has returned and until enableLogging() is
\* called no request is sent to the log API: the pending queue is empty, no
\* batch timer is pending, log() accepts no entry, and a batch that was in
\* flight or waiting between two attempts when the logger was disabled
\* makes no further POST.
C27_NoLogTrafficWhileDisabled ==
    /\ [](logger.disabled =>
             logger.pendingLogs = <<>> /\ logger.batchTimeout # PendingHandle)
    /\ [][logger.disabled /\ logger'.disabled =>
             /\ logger'.accepted = logger.accepted
             /\ PostsOf(logger'.batches) = PostsOf(logger.batches)]_vars

\* the entries of all batches made so far, and of the queue
BatchEntries(b) ==
    {logger.batches[b].logBatch[i].id : i \in 1..Len(logger.batches[b].logBatch)}

PendingEntries == {logger.pendingLogs[i].id : i \in 1..Len(logger.pendingLogs)}

\* C28: each accepted log entry is placed in at most one batch: no entry
\* is in two batches or twice in one, none is in a batch and still (or
\* again) in the pending queue, also after the send of its batch failed,
\* and at most 3 POSTs are made per batch.
C28_EachEntryInAtMostOneBatch ==
    \A b \in 1..Len(logger.batches) :
        /\ \A b2 \in 1..Len(logger.batches) :
               b2 # b => BatchEntries(b) \cap BatchEntries(b2) = {}
        /\ Cardinality(BatchEntries(b)) = Len(logger.batches[b].logBatch)
        /\ BatchEntries(b) \cap PendingEntries = {}
        /\ logger.batches[b].posts <= LOGGER_RETRY_COUNT

\* a batch of two entries failed on each of its 3 attempts, and a later
\* entry is in a batch of its own
C28_Witness ==
    /\ Len(logger.batches) = 2
    /\ logger.batches[1].ended = "thrown" /\ logger.batches[1].posts = 3
    /\ Len(logger.batches[1].logBatch) = 2
    /\ BatchEntries(2) = {3}

\* what sendEmail settles with when no logger is involved: the validation
\* error when it made no request, else the response of the last request,
\* or the error the catch block makes of its failure
WithoutLogging(cs) ==
    IF cs.nCalls = 0
    THEN LET validation == ValidateMessageData(cs.input)
         IN MetiganError(validation.error, validation.code)
    ELSE IF cs.lastResp.kind = "ok" THEN cs.lastResp
    ELSE InnerCatch(cs.lastResp, EMAIL_SEND_FAILED)

\* C29: logging never changes the outcome of a public operation: whatever
\* the log API does, sendEmail settles with the value it settles with when
\* logging is disabled, and nothing the logger does later (batch timers,
\* POSTs, retries, enabling, disabling) changes how an operation ended.
C29_LoggingNeverChangesTheOutcome ==
    /\ [](\A c \in Calls :
            (call[c].op = "sendEmail" /\ Done(c)) =>
                call[c].outcome = WithoutLogging(call[c]))
    /\ [][\A c \in Calls : Done(c) => call'[c] = call[c]]_vars

\* with logging enabled one call has succeeded and the other has failed,
\* while the batch of the first was given up after 3 failed POSTs
C29_Witness ==
    /\ ~logger.disabled /\ ~options.disableLogs
    /\ Done(MainCall) /\ call[MainCall].outcome.kind = "ok"
    /\ Done(MainCall + 1) /\ call[MainCall + 1].outcome.kind = "metigan"
    /\ call[MainCall + 1].nCalls = 2
    /\ Len(logger.batches) >= 1
    /\ logger.batches[1].ended = "thrown"
    /\ logger.accepted = 3

\* C23: after construction nothing changes the configuration of a client:
\* no operation, retry, logging activity, enableLogging or disableLogging
\* changes its API key, base URL, retry count, retry delay or timeout (the
\* 7 MiB limit and the MIME table are constants of the module).
C23_ConfigurationIsReadOnly ==
    [][/\ apiKey' = apiKey
       /\ baseUrl' = baseUrl
       /\ retryCount' = retryCount
       /\ retryDelay' = retryDelay
       /\ timeout' = timeout]_vars

\* a call has retried and failed, a log batch was sent, and logging was
\* disabled afterwards, on a client with its own retry policy
C23_Witness ==
    /\ retryCount = 2 /\ retryDelay = 1
    /\ Done(MainCall) /\ call[MainCall].nWaits = 1
    /\ Len(logger.batches) >= 1 /\ logger.batches[1].pc = "done"
    /\ logger.disabled /\ ~options.disableLogs

\* C30: in each call of sendEmailAndCreateContacts the email send is
\* started only after the request sequence of the contact creation has
\* settled, and it is started at most once per call, whatever errors the
\* contact creation or the email send itself produce.
C30_EmailSendStartedAtMostOnce ==
    \A c \in Calls :
        call[c].op = "sendEmailAndCreateContacts" =>
            /\ call[c].emailStarts <= 1
            /\ call[c].emailStarts >= 1 =>
                  /\ call[c].stage # "contacts"
                  /\ \A f \in inflight : f.call = c => f.req.stage # "contacts"

====
